---- MODULE Spec2Model ----
(***************************************************************************)
(* A model of the skiplist of github.com/hit9/skiplist (skiplist.go).      *)
(*                                                                         *)
(* The heap is the pair of functions item / forwards over node addresses:  *)
(* address head (0) is the head sentinel, 1..MaxNodes are the nodes made   *)
(* by newNode, Nil is Go's nil pointer.  Go indexes forwards from 0, TLA+  *)
(* sequences from 1: forwards[n][i + 1] is n.forwards[i].                  *)
(*                                                                         *)
(* Addresses are not observable in Go, so after every mutation the heap is *)
(* renamed (Canon) so that the nodes on the level-0 chain are 1, 2, 3, ... *)
(* in chain order; nodes no longer reachable from head are collected.      *)
(*                                                                         *)
(* sl.buf is cleared by resetBuf at the start of Put and Delete before it  *)
(* is read, so its content between two calls is never observed: it is the  *)
(* value `update` inside those actions and not a variable of the model.    *)
(*                                                                         *)
(* One iterator is followed at a time, and only while the caller makes no  *)
(* other call on the list: any other call ends the observation of it.      *)
(*                                                                         *)
(* stored is a history variable: the bag of the items passed to Put minus  *)
(* the items returned by Delete / PopFirst (emptied by Clear).             *)
(***************************************************************************)
EXTENDS Integers, Sequences, FiniteSets, Bags, TLC

\* ---------------------------------------------------------------- bounds
\* At most MaxNodes items are stored at a time.
MaxNodes == 2
\* Item scores are 0..MaxScore.
MaxScore == 1

\* The payloads of the items (skiplist_example.go: Item.value).
Values == {"a", "b"}
\* The maxLevel arguments given to the constructor.
MaxLevelArgs == {0, 1, 2, 3}

\* ---------------------------------------------------------------- items
Nil == -1
head == 0
NodeIds == 1..MaxNodes
Addrs == 0..MaxNodes

\* An Item: a score that orders it and a payload that does not.
Items == [score : 0..MaxScore, value : Values]
\* The probes given to Get, Has, Delete and NewIterator: Less reads the score
\* only, so one payload per score covers them.
Probes == { x \in Items : x.value = "a" }
\* Go's nil Item (the head's item, and the not-found result).
NilItem == [score |-> Nil, value |-> "nil"]

\* Item.Less
Less(a, b) == a.score < b.score

\* equal(item, than)
equal(a, b) == ~Less(a, b) /\ ~Less(b, a)

VARIABLES
    pc,        \* "start" before the constructor, "ready" with a list, "panic"
    maxLevel,  \* sl.maxLevel
    level,     \* sl.level
    length,    \* sl.length
    item,      \* item[n]: n.item
    forwards,  \* forwards[n]: n.forwards
    iter,      \* the iterator being followed
    stored,    \* history: bag of the items put and not yet removed
    ret        \* the last call and what it returned

vars == <<pc, maxLevel, level, length, item, forwards, iter, stored, ret>>

\* ---------------------------------------------------------------- heap
\* A node that is not allocated.
NoForwards == <<>>

\* newNode(level, item).forwards: `lv` nil links.
newForwards(lv) == [i \in 1..lv |-> Nil]

\* The addresses reachable from head along any link, head excluded.
Live(f) ==
    LET step(R) == R \cup UNION { { f[m][i] : i \in DOMAIN f[m] } : m \in R }
        RECURSIVE iterate(_, _)
        iterate(R, k) == IF k = 0 THEN R ELSE iterate(step(R) \ {Nil}, k - 1)
    IN  iterate({head}, MaxNodes) \ {head}

\* The addresses met from n along the level-0 links, in order.
RECURSIVE Chain(_, _, _)
Chain(f, n, seen) ==
    IF n = Nil \/ n \in seen \/ f[n] = NoForwards THEN <<>>
    ELSE <<n>> \o Chain(f, f[n][1], seen \cup {n})

Range(s) == { s[k] : k \in DOMAIN s }

RECURSIVE AscSeq(_)
AscSeq(S) ==
    IF S = {} THEN <<>>
    ELSE LET m == CHOOSE a \in S : \A b \in S : a <= b
         IN  <<m>> \o AscSeq(S \ {m})

\* The heap f, it with the addresses order[1], order[2], ... renamed 1, 2, ...
\* and every other address collected.  (A value is bound once by drawing it
\* from a one-element set: TLC evaluates a LET definition at each use.)
CanonBy(f, it, ord) ==
    CHOOSE r \in {
        LET rho(a) == IF a = Nil \/ a = head THEN a
                      ELSE CHOOSE k \in 1..Len(order) : order[k] = a
            old(k) == IF k = head THEN head ELSE order[k]
            used(k) == k = head \/ k <= Len(order)
        IN  [forwards |-> [k \in Addrs |->
                            IF used(k)
                            THEN [i \in DOMAIN f[old(k)] |-> rho(f[old(k)][i])]
                            ELSE NoForwards],
             item |-> [k \in Addrs |-> IF used(k) THEN it[old(k)] ELSE NilItem]]
        : order \in {ord} } : TRUE

\* The heap renamed: the level-0 chain becomes 1, 2, ..., the other nodes
\* still reachable from head follow, and unreachable nodes are collected.
Canon(f, it) ==
    CHOOSE r \in { CanonBy(f, it, c \o AscSeq(Live(f) \ Range(c))) :
                     c \in {Chain(f, f[head][1], {})} } : TRUE

\* The address newNode returns: one that is not in use.
FreeAddrs == NodeIds \ Live(forwards)
NewAddr == CHOOSE a \in FreeAddrs : \A b \in FreeAddrs : a <= b

\* ---------------------------------------------------------------- results
Ret(op, arg, val, ok, num) ==
    [op |-> op, arg |-> arg, val |-> val, ok |-> ok, num |-> num]

NoIter == [open |-> FALSE, n |-> Nil, start |-> NilItem, out |-> <<>>]

\* ---------------------------------------------------------------- descent
\* Advance with the operands of Less exchanged.
RECURSIVE MutAdvance(_, _, _)
MutAdvance(n, i, x) ==
    IF forwards[n][i + 1] # Nil /\ Less(x, item[forwards[n][i + 1]])
    THEN MutAdvance(forwards[n][i + 1], i, x)
    ELSE n

\* Advance that also passes the items equal to x (!x.Less(n.forwards[i].item)).
RECURSIVE MutAdvancePast(_, _, _)
MutAdvancePast(n, i, x) ==
    IF forwards[n][i + 1] # Nil /\ ~Less(x, item[forwards[n][i + 1]])
    THEN MutAdvancePast(forwards[n][i + 1], i, x)
    ELSE n

\* for n.forwards[i] != nil && n.forwards[i].item.Less(x) { n = n.forwards[i] }
RECURSIVE Advance(_, _, _)
Advance(n, i, x) ==
    IF forwards[n][i + 1] # Nil /\ Less(item[forwards[n][i + 1]], x)
    THEN Advance(forwards[n][i + 1], i, x)
    ELSE n

\* resetBuf: every entry of buf is nil.
resetBuf == [i \in 1..maxLevel |-> Nil]

\* for i := sl.level - 1; i >= 0; i-- { advance; update[i] = n }
RECURSIVE Descend(_, _, _, _)
Descend(i, n, x, update) ==
    IF i < 0 THEN [n |-> n, update |-> update]
    ELSE LET m == Advance(n, i, x)
         IN  Descend(i - 1, m, x, [update EXCEPT ![i + 1] = m])

\* The descent of Put and Delete: the node reached and the update array.
Search(x) == Descend(level - 1, head, x, resetBuf)

\* The descent of Get and NewIterator: the node reached.
Seek(x) == Search(x).n

\* ---------------------------------------------------------------- helpers
\* randLevel with level := 0 in place of level := 1.
MutRandLevel(t) == IF t < maxLevel THEN t ELSE maxLevel

\* randLevel, its loop making t successful trials before the trial that
\* fails: level is 1 + t after the loop, and min(1 + t, maxLevel) is returned.
randLevel(t) == IF 1 + t < maxLevel THEN 1 + t ELSE maxLevel

\* RaiseUpdate that starts one level too high (i := sl.level + 1).
MutRaiseUpdate(update, h) ==
    [i \in DOMAIN update |->
        IF level + 1 < i /\ i <= h THEN head ELSE update[i]]

\* Put: for i := sl.level; i < h; i++ { update[i] = sl.head }
RaiseUpdate(update, h) ==
    [i \in DOMAIN update |-> IF level < i /\ i <= h THEN head ELSE update[i]]

\* Splice with its two assignments in the other order:
\* update[i].forwards[i] = n; n.forwards[i] = update[i].forwards[i]
RECURSIVE MutSplice(_, _, _, _, _)
MutSplice(f, n, update, i, h) ==
    IF i >= h THEN f
    ELSE LET u == update[i + 1]
             f1 == [f EXCEPT ![u][i + 1] = n]
             f2 == [f1 EXCEPT ![n][i + 1] = f1[u][i + 1]]
         IN  MutSplice(f2, n, update, i + 1, h)

\* Splice that links the new node behind update[h - 1] at every level
\* (update[level-1] in place of update[i]).
RECURSIVE MutSpliceTop(_, _, _, _, _)
MutSpliceTop(f, n, update, i, h) ==
    IF i >= h THEN f
    ELSE LET u == update[h]
             f1 == [f EXCEPT ![n][i + 1] = f[u][i + 1]]
             f2 == [f1 EXCEPT ![u][i + 1] = n]
         IN  MutSpliceTop(f2, n, update, i + 1, h)

\* Put: for i := 0; i < h; i++ { n.forwards[i] = update[i].forwards[i];
\*                               update[i].forwards[i] = n }
RECURSIVE Splice(_, _, _, _, _)
Splice(f, n, update, i, h) ==
    IF i >= h THEN f
    ELSE LET u == update[i + 1]
             f1 == [f EXCEPT ![n][i + 1] = f[u][i + 1]]
             f2 == [f1 EXCEPT ![u][i + 1] = n]
         IN  Splice(f2, n, update, i + 1, h)

\* Unlink that stops one level early (i < sl.level - 1).
RECURSIVE MutUnlink(_, _, _, _, _)
MutUnlink(f, n, update, i, lv) ==
    IF i >= lv - 1 THEN f
    ELSE LET u == update[i + 1]
             f1 == IF f[u][i + 1] = n
                   THEN [f EXCEPT ![u][i + 1] = f[n][i + 1]]
                   ELSE f
         IN  MutUnlink(f1, n, update, i + 1, lv)

\* Delete: for i := 0; i < sl.level; i++ {
\*   if update[i].forwards[i] == n { update[i].forwards[i] = n.forwards[i] } }
RECURSIVE Unlink(_, _, _, _, _)
Unlink(f, n, update, i, lv) ==
    IF i >= lv THEN f
    ELSE LET u == update[i + 1]
             f1 == IF f[u][i + 1] = n
                   THEN [f EXCEPT ![u][i + 1] = f[n][i + 1]]
                   ELSE f
         IN  Unlink(f1, n, update, i + 1, lv)

\* Release that stops above level 0 (i > 0).
RECURSIVE MutRelease(_, _, _)
MutRelease(f, n, i) ==
    IF i < 1 THEN f
    ELSE LET f1 == IF f[head][i + 1] = n
                   THEN [f EXCEPT ![head][i + 1] = f[n][i + 1]]
                   ELSE f
         IN  MutRelease(f1, n, i - 1)

\* Release that unlinks n at level 0 only (no loop over the levels).
MutReleaseBottom(f, n, i) == [f EXCEPT ![head][1] = f[n][1]]

\* PopFirst: for i := sl.level - 1; i >= 0; i-- {
\*   if head.forwards[i] == n { head.forwards[i] = n.forwards[i] } }
RECURSIVE Release(_, _, _)
Release(f, n, i) ==
    IF i < 0 THEN f
    ELSE LET f1 == IF f[head][i + 1] = n
                   THEN [f EXCEPT ![head][i + 1] = f[n][i + 1]]
                   ELSE f
         IN  Release(f1, n, i - 1)

\* for sl.level > 1 && head.forwards[sl.level-1] == nil { sl.level-- }
RECURSIVE Shrink(_, _)
Shrink(f, lv) ==
    IF lv > 1 /\ f[head][lv] = Nil THEN Shrink(f, lv - 1) ELSE lv

\* PutOf without sl.length++.
MutPutOf(x, t) ==
    LET h == randLevel(t)
        update == RaiseUpdate(Search(x).update, h)
        n == NewAddr
    IN  [level |-> IF h > level THEN h ELSE level,
         length |-> length,
         forwards |-> Splice([forwards EXCEPT ![n] = newForwards(h)],
                             n, update, 0, h),
         item |-> [item EXCEPT ![n] = x],
         val |-> NilItem]

\* Put(x) with t successful trials of randLevel, on the current list.
PutOf(x, t) ==
    LET h == randLevel(t)
        update == RaiseUpdate(Search(x).update, h)
        n == NewAddr
    IN  [level |-> IF h > level THEN h ELSE level,
         length |-> length + 1,
         forwards |-> Splice([forwards EXCEPT ![n] = newForwards(h)],
                             n, update, 0, h),
         item |-> [item EXCEPT ![n] = x],
         val |-> NilItem]

\* DeleteOf without the test of equal(n.item, item).
MutDeleteOf(x) ==
    LET s == Search(x)
        n == forwards[s.n][1]
    IN  IF n = Nil
        THEN [level |-> level, length |-> length, forwards |-> forwards,
              item |-> item, val |-> NilItem]
        ELSE LET f == Unlink(forwards, n, s.update, 0, level)
             IN  [level |-> Shrink(f, level), length |-> length - 1,
                  forwards |-> f, item |-> item, val |-> item[n]]

\* Delete(x) on the current list; val is the item returned.
DeleteOf(x) ==
    LET s == Search(x)
        n == forwards[s.n][1]
    IN  IF n = Nil \/ ~equal(item[n], x)
        THEN [level |-> level, length |-> length, forwards |-> forwards,
              item |-> item, val |-> NilItem]
        ELSE LET f == Unlink(forwards, n, s.update, 0, level)
             IN  [level |-> Shrink(f, level), length |-> length - 1,
                  forwards |-> f, item |-> item, val |-> item[n]]

\* GetItem without the test of equal(n.item, item).
MutGetItem(x) ==
    LET n == forwards[Seek(x)][1]
    IN  IF n # Nil THEN item[n] ELSE NilItem

\* Get(x): the item found, or nil.
GetItem(x) ==
    LET n == forwards[Seek(x)][1]
    IN  IF n # Nil /\ equal(item[n], x) THEN item[n] ELSE NilItem

\* Has(x)
HasItem(x) == GetItem(x) # NilItem

\* IterStart with the test of start inverted (start == nil).
MutIterStart(start) == IF start = NilItem THEN Seek(start) ELSE head

\* NewIterator(start): the node the iterator starts on.
IterStart(start) == IF start # NilItem THEN Seek(start) ELSE head

\* BadMaxLevel off by one (maxLevel < 1).
MutBadMaxLevel(m) == m < 1

\* NewWithRandSeed: if maxLevel < 2 { panic(...) }
BadMaxLevel(m) == m < 2

\* First(): the first item, or nil.
FirstItem == IF length = 0 THEN NilItem ELSE item[forwards[head][1]]

\* PopFirstOf without the loop that lowers sl.level.
MutPopFirstOf(st) ==
    IF st.length = 0 THEN [st EXCEPT !.val = NilItem]
    ELSE LET n == st.forwards[head][1]
             f == Release(st.forwards, n, st.level - 1)
         IN  [level |-> st.level, length |-> st.length - 1,
              forwards |-> f, item |-> st.item, val |-> st.item[n]]

\* One PopFirst on the list state st = [level, length, forwards, item].
PopFirstOf(st) ==
    IF st.length = 0 THEN [st EXCEPT !.val = NilItem]
    ELSE LET n == st.forwards[head][1]
             f == Release(st.forwards, n, st.level - 1)
         IN  [level |-> Shrink(f, st.level), length |-> st.length - 1,
              forwards |-> f, item |-> st.item, val |-> st.item[n]]

\* ClearOf that pops once (if in place of for).
MutClearOf(st) == PopFirstOf(st)

\* Clear: for sl.PopFirst() != nil {}
RECURSIVE ClearOf(_)
ClearOf(st) ==
    LET t == PopFirstOf(st)
    IN  IF t.val # NilItem THEN ClearOf(t) ELSE t

ListState == [level |-> level, length |-> length, forwards |-> forwards,
              item |-> item, val |-> NilItem]

\* ---------------------------------------------------------------- actions
Init ==
    /\ pc = "start"
    /\ maxLevel = 0
    /\ level = 0
    /\ length = 0
    /\ item = [k \in Addrs |-> NilItem]
    /\ forwards = [k \in Addrs |-> NoForwards]
    /\ iter = NoIter
    /\ stored = EmptyBag
    /\ ret = Ret("none", NilItem, NilItem, FALSE, 0)

\* NewWithRandSeed(m, seed) with m < 2: panic("skiplist: bad maxLevel").
NewPanic(m) ==
    /\ pc = "start"
    /\ BadMaxLevel(m)
    /\ pc' = "panic"
    /\ ret' = Ret("New", NilItem, NilItem, FALSE, m)
    /\ UNCHANGED <<maxLevel, level, length, item, forwards, iter, stored>>

\* NewWithRandSeed(m, seed) with m >= 2.
New(m) ==
    /\ pc = "start"
    /\ ~BadMaxLevel(m)
    /\ pc' = "ready"
    /\ maxLevel' = m
    /\ forwards' = [forwards EXCEPT ![head] = newForwards(m)]
    /\ ret' = Ret("New", NilItem, NilItem, TRUE, m)
    /\ UNCHANGED <<level, length, item, iter, stored>>

\* Len()
LenCall ==
    /\ pc = "ready"
    /\ ret' = Ret("Len", NilItem, NilItem, TRUE, length)
    /\ iter' = NoIter
    /\ UNCHANGED <<pc, maxLevel, level, length, item, forwards, stored>>

\* Level()
LevelCall ==
    /\ pc = "ready"
    /\ ret' = Ret("Level", NilItem, NilItem, TRUE, level)
    /\ iter' = NoIter
    /\ UNCHANGED <<pc, maxLevel, level, length, item, forwards, stored>>

\* MaxLevel()
MaxLevelCall ==
    /\ pc = "ready"
    /\ ret' = Ret("MaxLevel", NilItem, NilItem, TRUE, maxLevel)
    /\ iter' = NoIter
    /\ UNCHANGED <<pc, maxLevel, level, length, item, forwards, stored>>

\* Put(x), randLevel making t successful trials (kept in ret.num).
Put(x, t) ==
    /\ pc = "ready"
    /\ length < MaxNodes
    /\ FreeAddrs # {}
    /\ \E p \in {PutOf(x, t)} : \E c \in {Canon(p.forwards, p.item)} :
           /\ level' = p.level
           /\ length' = p.length
           /\ forwards' = c.forwards
           /\ item' = c.item
    /\ stored' = stored (+) SetToBag({x})
    /\ ret' = Ret("Put", x, NilItem, TRUE, t)
    /\ iter' = NoIter
    /\ UNCHANGED <<pc, maxLevel>>

\* Get(x)
Get(x) ==
    /\ pc = "ready"
    /\ ret' = Ret("Get", x, GetItem(x), GetItem(x) # NilItem, 0)
    /\ iter' = NoIter
    /\ UNCHANGED <<pc, maxLevel, level, length, item, forwards, stored>>

\* Has(x)
Has(x) ==
    /\ pc = "ready"
    /\ ret' = Ret("Has", x, NilItem, HasItem(x), 0)
    /\ iter' = NoIter
    /\ UNCHANGED <<pc, maxLevel, level, length, item, forwards, stored>>

\* Delete(x)
Delete(x) ==
    /\ pc = "ready"
    /\ \E d \in {DeleteOf(x)} : \E c \in {Canon(d.forwards, d.item)} :
           /\ forwards' = c.forwards
           /\ item' = c.item
           /\ level' = d.level
           /\ length' = d.length
           /\ stored' = IF d.val = NilItem THEN stored
                        ELSE stored (-) SetToBag({d.val})
           /\ ret' = Ret("Delete", x, d.val, d.val # NilItem, 0)
    /\ iter' = NoIter
    /\ UNCHANGED <<pc, maxLevel>>

\* First that unlinks the node it returns, as PopFirst does.
MutFirst ==
    /\ pc = "ready"
    /\ \E t \in {PopFirstOf(ListState)} : \E c \in {Canon(t.forwards, t.item)} :
           /\ forwards' = c.forwards
           /\ item' = c.item
           /\ level' = t.level
           /\ length' = t.length
           /\ ret' = Ret("First", NilItem, t.val, t.val # NilItem, 0)
    /\ iter' = NoIter
    /\ UNCHANGED <<pc, maxLevel, stored>>

\* First()
First ==
    /\ pc = "ready"
    /\ ret' = Ret("First", NilItem, FirstItem, FirstItem # NilItem, 0)
    /\ iter' = NoIter
    /\ UNCHANGED <<pc, maxLevel, level, length, item, forwards, stored>>

\* PopFirst()
PopFirst ==
    /\ pc = "ready"
    /\ \E t \in {PopFirstOf(ListState)} : \E c \in {Canon(t.forwards, t.item)} :
           /\ forwards' = c.forwards
           /\ item' = c.item
           /\ level' = t.level
           /\ length' = t.length
           /\ stored' = IF t.val = NilItem THEN stored
                        ELSE stored (-) SetToBag({t.val})
           /\ ret' = Ret("PopFirst", NilItem, t.val, t.val # NilItem, 0)
    /\ iter' = NoIter
    /\ UNCHANGED <<pc, maxLevel>>

\* Clear()
Clear ==
    /\ pc = "ready"
    /\ \E t \in {ClearOf(ListState)} : \E c \in {Canon(t.forwards, t.item)} :
           /\ forwards' = c.forwards
           /\ item' = c.item
           /\ level' = t.level
           /\ length' = t.length
    /\ stored' = EmptyBag
    /\ ret' = Ret("Clear", NilItem, NilItem, TRUE, 0)
    /\ iter' = NoIter
    /\ UNCHANGED <<pc, maxLevel>>

\* NewIterator(start); start = NilItem is NewIterator(nil).
NewIterator(start) ==
    /\ pc = "ready"
    /\ iter' = [open |-> TRUE,
                n |-> IterStart(start),
                start |-> start, out |-> <<>>]
    /\ ret' = Ret("NewIterator", start, NilItem, TRUE, 0)
    /\ UNCHANGED <<pc, maxLevel, level, length, item, forwards, stored>>

\* iter.Next(), and iter.Item() when Next returned true.
Next_ ==
    /\ pc = "ready"
    /\ iter.open
    /\ iter.n # Nil
    /\ LET m == forwards[iter.n][1]
       IN  /\ iter' = [iter EXCEPT !.n = m,
                         !.out = IF m # Nil THEN Append(@, item[m]) ELSE @]
           /\ ret' = Ret("Next", NilItem, IF m # Nil THEN item[m] ELSE NilItem,
                         m # Nil, 0)
    /\ UNCHANGED <<pc, maxLevel, level, length, item, forwards, stored>>

\* iter.Next() with iter.n == nil: iter.n.forwards dereferences nil.
NextPanic ==
    /\ pc = "ready"
    /\ iter.open
    /\ iter.n = Nil
    /\ pc' = "panic"
    /\ ret' = Ret("Next", NilItem, NilItem, FALSE, 0)
    /\ UNCHANGED <<maxLevel, level, length, item, forwards, iter, stored>>

Next ==
    \/ \E m \in MaxLevelArgs : NewPanic(m)
    \/ \E m \in MaxLevelArgs : New(m)
    \/ LenCall
    \/ LevelCall
    \/ MaxLevelCall
    \/ \E x \in Items : \E t \in 0..maxLevel : Put(x, t)
    \/ \E x \in Probes : Get(x)
    \/ \E x \in Probes : Has(x)
    \/ \E x \in Probes : Delete(x)
    \/ First
    \/ PopFirst
    \/ Clear
    \/ \E s \in Probes \cup {NilItem} : NewIterator(s)
    \/ Next_
    \/ NextPanic

Spec == Init /\ [][Next]_vars

\* ---------------------------------------------------------------- observations
\* The addresses met from head along the level-i links (Go index i).
RECURSIVE LevelWalk(_, _, _, _)
LevelWalk(f, n, i, seen) ==
    IF n = Nil \/ n \in seen \/ Len(f[n]) < i + 1 THEN <<>>
    ELSE <<n>> \o LevelWalk(f, f[n][i + 1], i, seen \cup {n})

LevelChain(f, i) ==
    IF Len(f[head]) < i + 1 THEN <<>> ELSE LevelWalk(f, f[head][i + 1], i, {})

\* The items on the level-0 chain, in chain order.
Level0Items == [k \in DOMAIN LevelChain(forwards, 0) |->
                    item[LevelChain(forwards, 0)[k]]]

\* s is in non-decreasing order by Less.
Ascending(s) == \A j, k \in DOMAIN s : j < k => ~Less(s[k], s[j])

\* The bag of the elements of the sequence s.
BagOfSeq(s) ==
    [x \in Range(s) |-> Cardinality({ k \in DOMAIN s : s[k] = x })]

\* The items of the bag B that are not less than x, with their counts.
NotLessThan(B, x) ==
    [y \in { z \in DOMAIN B : ~Less(z, x) } |-> B[y]]

\* Some stored item equals x.
StoredEqual(x) == \E y \in DOMAIN stored : equal(y, x)

\* The iterator has been advanced until Next returned false.
Exhausted == pc = "ready" /\ iter.open /\ iter.n = Nil

\* ---------------------------------------------------------------- claims
\* C1: an iterator from NewIterator(nil), advanced until Next returns false,
\* has yielded every stored item exactly once, in non-decreasing order by
\* Less; what it has yielded so far is always in non-decreasing order.
C1_IterNilYieldsAllAscending ==
    (pc = "ready" /\ iter.open /\ iter.start = NilItem) =>
        /\ Ascending(iter.out)
        /\ iter.n = Nil => BagOfSeq(iter.out) = stored

\* A full iteration from nil over MaxNodes items, two of them equal by Less
\* and of different payloads, in a list of more than one level.
C1_Witness ==
    /\ Exhausted
    /\ iter.start = NilItem
    /\ Len(iter.out) = MaxNodes
    /\ level > 1
    /\ \E j, k \in DOMAIN iter.out :
          j # k /\ equal(iter.out[j], iter.out[k]) /\ iter.out[j] # iter.out[k]

\* C2: Get(x) returns a stored item equal to x, and Has(x) is true, if and
\* only if some item equal to x has been put and not yet removed; otherwise
\* Get(x) is nil and Has(x) is false.  The same of the last Get / Has call.
C2_Membership ==
    pc = "ready" =>
        /\ \A x \in Items :
              /\ GetItem(x) # NilItem <=> StoredEqual(x)
              /\ HasItem(x) <=> StoredEqual(x)
              /\ GetItem(x) # NilItem =>
                    equal(GetItem(x), x) /\ BagIn(GetItem(x), stored)
        /\ ret.op = "Get" =>
              /\ ret.val # NilItem <=> StoredEqual(ret.arg)
              /\ ret.val # NilItem =>
                    equal(ret.val, ret.arg) /\ BagIn(ret.val, stored)
        /\ ret.op = "Has" => (ret.ok <=> StoredEqual(ret.arg))

\* Get found a stored item whose payload is not the probe's, in a list of
\* several items; the list also misses some score.
C2_Witness ==
    /\ pc = "ready"
    /\ ret.op = "Get"
    /\ ret.val # NilItem
    /\ ret.val # ret.arg
    /\ length > 1
    /\ \E x \in Items : ~StoredEqual(x)

\* C3: Len() is the number of nodes reachable from head along the level-0
\* links; a Put raises it by exactly 1, a Delete or PopFirst that returns an
\* item lowers it by exactly 1.
C3_LengthAccounting ==
    /\ [](pc = "ready" => length = Len(LevelChain(forwards, 0)))
    /\ [][/\ ret'.op = "Put" => length' = length + 1
          /\ (ret'.op \in {"Delete", "PopFirst"} /\ ret'.val # NilItem)
                => length' = length - 1]_vars

\* A Delete returned an item and left MaxNodes - 1 items in the list.
C3_Witness ==
    /\ pc = "ready"
    /\ ret.op = "Delete"
    /\ ret.val # NilItem
    /\ length = MaxNodes - 1
    /\ Len(LevelChain(forwards, 0)) = MaxNodes - 1

\* C4: First() returns an item no stored item is less than, nil exactly when
\* nothing is stored; PopFirst() returns exactly First() and removes exactly
\* that first node, the rest of the level-0 chain staying as it was.
C4_MinimumExtraction ==
    /\ [](pc = "ready" =>
            /\ FirstItem = NilItem <=> stored = EmptyBag
            /\ FirstItem # NilItem =>
                  /\ BagIn(FirstItem, stored)
                  /\ \A y \in DOMAIN stored : ~Less(y, FirstItem))
    /\ [][ret'.op = "PopFirst" =>
            /\ ret'.val = FirstItem
            /\ ret'.val = NilItem <=> stored = EmptyBag
            /\ ret'.val # NilItem =>
                  /\ Level0Items' = Tail(Level0Items)
                  /\ \A y \in DOMAIN stored' : ~Less(y, ret'.val)]_vars

\* PopFirst returned an item and left a list whose first item is strictly
\* greater.
C4_Witness ==
    /\ pc = "ready"
    /\ ret.op = "PopFirst"
    /\ ret.val # NilItem
    /\ length = MaxNodes - 1
    /\ Less(ret.val, FirstItem)

\* C5: an iterator from NewIterator(start), start not nil, advanced until
\* Next returns false, has yielded exactly the stored items not less than
\* start, each once, in non-decreasing order; with one item per score
\* 0..N-1 stored and start of score k it has yielded the scores k..N-1.
C5_SeededIteration ==
    (pc = "ready" /\ iter.open /\ iter.start # NilItem) =>
        /\ Ascending(iter.out)
        /\ \A k \in DOMAIN iter.out : ~Less(iter.out[k], iter.start)
        /\ iter.n = Nil =>
              /\ BagOfSeq(iter.out) = NotLessThan(stored, iter.start)
              /\ (/\ BagCardinality(stored) = length
                  /\ \A j \in 0..length - 1 :
                        Cardinality({ y \in DOMAIN stored : y.score = j }) = 1
                  /\ iter.start.score <= length)
                    => /\ Len(iter.out) = length - iter.start.score
                       /\ \A k \in DOMAIN iter.out :
                             iter.out[k].score = iter.start.score + k - 1

\* A full iteration from a start that skips a stored item and yields another.
C5_Witness ==
    /\ Exhausted
    /\ iter.start # NilItem
    /\ Len(iter.out) > 0
    /\ \E y \in DOMAIN stored : Less(y, iter.start)
    /\ length = MaxNodes

\* The sequence s without its k-th element.
RemoveAt(s, k) == [j \in 1..Len(s) - 1 |-> IF j < k THEN s[j] ELSE s[j + 1]]

\* The address, after the node at address k is removed, of the node that
\* was at address a: the k-th node of the level-0 chain is at address k, and
\* the nodes behind it move up by one.
AfterRemoval(a, k) == IF a > k THEN a - 1 ELSE a

\* The level-i chain without address k, renamed as after its removal.
ChainWithout(f, i, k) ==
    LET c == LevelChain(f, i)
    IN  [j \in DOMAIN SelectSeq(c, LAMBDA a : a # k) |->
            AfterRemoval(SelectSeq(c, LAMBDA a : a # k)[j], k)]

\* C6: Delete(x) with a stored item equal to x returns a stored item equal
\* to x and removes exactly one node holding it: at every level the chain
\* after is the chain before without that node, every other node kept in
\* its place.
C6_DeleteRemovesOneNode ==
    [][(ret'.op = "Delete" /\ StoredEqual(ret'.arg)) =>
          /\ ret'.val # NilItem
          /\ equal(ret'.val, ret'.arg)
          /\ BagIn(ret'.val, stored)
          /\ \E k \in DOMAIN LevelChain(forwards, 0) :
                LET n == LevelChain(forwards, 0)[k]
                IN  /\ n = k
                    /\ item[n] = ret'.val
                    /\ Level0Items' = RemoveAt(Level0Items, k)
                    /\ \A i \in 0..maxLevel - 1 :
                          LevelChain(forwards', i) = ChainWithout(forwards, i, n)
                    /\ \A a \in Live(forwards) \ {n} :
                          /\ item'[AfterRemoval(a, n)] = item[a]
                          /\ Len(forwards'[AfterRemoval(a, n)]) = Len(forwards[a])
                    /\ Live(forwards') =
                          { AfterRemoval(a, n) : a \in Live(forwards) \ {n} }]_vars

\* Delete removed one of two stored items equal to x, the other one stays,
\* and the list keeps more than one level.
C6_Witness ==
    /\ pc = "ready"
    /\ ret.op = "Delete"
    /\ ret.val # NilItem
    /\ StoredEqual(ret.arg)
    /\ level > 1
    /\ length = MaxNodes - 1

\* C7: Delete(x) with no stored item equal to x, and Get / First / PopFirst /
\* Delete on a list that stores nothing, return nil without a panic and
\* leave every forward link, every item, Level() and Len() as they were.
C7_NotFoundIsAValue ==
    [][(\/ ret'.op = "Delete" /\ ~StoredEqual(ret'.arg)
        \/ ret'.op \in {"Get", "First", "PopFirst", "Delete"}
              /\ stored = EmptyBag) =>
          /\ ret'.val = NilItem
          /\ pc' = "ready"
          /\ UNCHANGED <<forwards, item, level, length, stored>>]_vars

\* A Delete of an absent item left the stored items and a list of more than
\* one level in place.
C7_Witness ==
    /\ pc = "ready"
    /\ ret.op = "Delete"
    /\ ret.val = NilItem
    /\ ~StoredEqual(ret.arg)
    /\ length = MaxNodes - 1
    /\ level > 1

\* C8: after Clear(), Len() is 0, the level-0 chain (and every other chain)
\* is empty, First() and PopFirst() return nil, and one more Clear() leaves
\* the list as it is.
C8_ClearEmpties ==
    (pc = "ready" /\ ret.op = "Clear") =>
        /\ length = 0
        /\ \A i \in 0..maxLevel - 1 : LevelChain(forwards, i) = <<>>
        /\ Live(forwards) = {}
        /\ FirstItem = NilItem
        /\ PopFirstOf(ListState) = ListState
        /\ ClearOf(ListState) = ListState

\* Clear() emptied a list that had stored items (its level is not the 0 of
\* a fresh list).
C8_Witness ==
    /\ pc = "ready"
    /\ ret.op = "Clear"
    /\ level > 0
    /\ maxLevel = 3

\* C9: the constructor called with maxLevel < 2 panics and makes no list;
\* called with maxLevel >= 2 it makes an empty list: Len() is 0, MaxLevel()
\* is the argument and head has maxLevel links, all nil.
C9_Construction ==
    ret.op = "New" =>
        /\ ret.num < 2 =>
              /\ pc = "panic"
              /\ maxLevel = 0
              /\ forwards[head] = NoForwards
        /\ ret.num >= 2 =>
              /\ pc = "ready"
              /\ length = 0
              /\ maxLevel = ret.num
              /\ forwards[head] = [i \in 1..ret.num |-> Nil]
              /\ Live(forwards) = {}
              /\ stored = EmptyBag

\* The constructor was called with maxLevel = 1 and panicked.
C9_Witness ==
    /\ ret.op = "New"
    /\ ret.num = 1
    /\ pc = "panic"

\* C10: in every state of a list, a freshly constructed one included,
\* 1 <= Level() <= MaxLevel().
C10_LevelInRange ==
    pc = "ready" => (1 <= level /\ level <= maxLevel)

\* C11: once Next() has returned false on an iterator, with no mutation of
\* the list in between, a later Next() on that iterator returns false as
\* well, without a panic, and yields no further item.
C11_TerminationIsFinal ==
    [][(Exhausted /\ ret'.op = "Next") =>
          /\ pc' = "ready"
          /\ ret'.ok = FALSE
          /\ ret'.val = NilItem
          /\ iter'.out = iter.out
          /\ iter'.n = Nil]_vars

\* The calls that only read the list.
ReadOnlyOps == {"Get", "Has", "First", "Len", "Level", "MaxLevel",
                "NewIterator", "Next"}

\* C12: Get, Has, First, Len, Level, NewIterator and Iterator.Next / Item
\* are read-only: they leave every node's forward links and item, Level()
\* and Len() unchanged.
C12_ReadOnly ==
    [][ret'.op \in ReadOnlyOps =>
          /\ UNCHANGED <<forwards, item, level, length, maxLevel>>
          /\ \A i \in 0..maxLevel - 1 :
                LevelChain(forwards', i) = LevelChain(forwards, i)]_vars

\* First() returned an item of a full list of more than one level.
C12_Witness ==
    /\ pc = "ready"
    /\ ret.op = "First"
    /\ ret.val # NilItem
    /\ length = MaxNodes
    /\ level > 1

\* s is a subsequence of t (neither repeats an element): the elements of s,
\* in the order they have in t, are s.
IsSubseq(s, t) == s = SelectSeq(t, LAMBDA a : a \in Range(s))

\* C13: the tower invariant.  Every node on the level-i chain is on every
\* level-j chain, j < i, and the level-i chain is a subsequence of the
\* level-j chain; a node is on the chains 0 .. its height - 1; every node
\* linked at any level is on the level-0 chain, so that no removed node
\* stays linked at an upper level.
C13_Tower ==
    pc = "ready" =>
        /\ \A i \in 1..maxLevel - 1 : \A j \in 0..i - 1 :
              /\ Range(LevelChain(forwards, i)) \subseteq
                    Range(LevelChain(forwards, j))
              /\ IsSubseq(LevelChain(forwards, i), LevelChain(forwards, j))
        /\ Live(forwards) = Range(LevelChain(forwards, 0))
        /\ \A n \in Live(forwards) : \A i \in 0..maxLevel - 1 :
              n \in Range(LevelChain(forwards, i)) <=> i < Len(forwards[n])
        /\ (ret.op \in {"Delete", "PopFirst"} /\ ret.val # NilItem) =>
              /\ Cardinality(Live(forwards)) = length
              /\ \A i \in 0..maxLevel - 1 :
                    Len(LevelChain(forwards, i)) <= length

\* A PopFirst returned an item and left, in a list of three levels, a node
\* that is linked at an upper level.
C13_Witness ==
    /\ pc = "ready"
    /\ ret.op = "PopFirst"
    /\ ret.val # NilItem
    /\ maxLevel = 3
    /\ length = MaxNodes - 1
    /\ LevelChain(forwards, 1) # <<>>

\* The walk from n along the level-i links ends in nil: it meets no node
\* twice and no node without a level-i link.
RECURSIVE EndsInNil(_, _, _, _)
EndsInNil(f, n, i, seen) ==
    IF n = Nil THEN TRUE
    ELSE IF n \in seen \/ Len(f[n]) < i + 1 THEN FALSE
    ELSE EndsInNil(f, f[n][i + 1], i, seen \cup {n})

\* The items on the level-i chain, in chain order.
LevelItems(i) == [k \in DOMAIN LevelChain(forwards, i) |->
                    item[LevelChain(forwards, i)[k]]]

\* C14: for every level i < Level() (and every level up to MaxLevel()) the
\* chain from head is finite, that is acyclic and ending in nil, and its
\* items are non-decreasing by Less.
C14_PerLevelOrdering ==
    pc = "ready" =>
        \A i \in 0..maxLevel - 1 :
            /\ EndsInNil(forwards, forwards[head][i + 1], i, {})
            /\ Ascending(LevelItems(i))
            /\ i >= level => LevelChain(forwards, i) = <<>>

\* A full list whose top chain, above level 0, holds every node, with items
\* of different scores.
C14_Witness ==
    /\ pc = "ready"
    /\ level > 1
    /\ length = MaxNodes
    /\ Len(LevelChain(forwards, level - 1)) = MaxNodes
    /\ Less(LevelItems(level - 1)[1], LevelItems(level - 1)[MaxNodes])

\* head has no link at or above level lv, and lv is 1 or head has a link at
\* level lv - 1 (Go indexes).
Tight(f, lv) ==
    /\ lv >= 1
    /\ \A i \in lv..maxLevel - 1 : f[head][i + 1] = Nil
    /\ lv = 1 \/ f[head][lv] # Nil

\* The topmost level at which head has a link, 1 if it has none: the level a
\* shrink with a floor of 1 ends at.
TopLevel(f) ==
    IF \A i \in 1..maxLevel : f[head][i] = Nil THEN 1
    ELSE CHOOSE i \in 1..maxLevel :
            f[head][i] # Nil /\ \A j \in i + 1..maxLevel : f[head][j] = Nil

\* C15: after every Put, Delete and PopFirst, head has no forward link at
\* any level i >= Level(), and Level() is 1 or head's link at level
\* Level() - 1 is not nil: Level() is the topmost non-empty level, with a
\* floor of 1.
C15_LevelTightness ==
    (pc = "ready" /\ ret.op \in {"Put", "Delete", "PopFirst"}) =>
        /\ Tight(forwards, level)
        /\ level = TopLevel(forwards)

\* The list state st with its heap renamed as the actions rename it.
CanonState(st) ==
    LET c == Canon(st.forwards, st.item)
    IN  [st EXCEPT !.forwards = c.forwards, !.item = c.item]

\* The list state after the step.
ListStateAfter(val) ==
    [level |-> level', length |-> length', forwards |-> forwards',
     item |-> item', val |-> val]

\* C16: from any reachable non-empty state, duplicates of the minimum
\* included, PopFirst() and Delete(First()) return the same item and leave
\* the same forward links at every level, the same Level() and the same
\* Len(); a PopFirst step ends where Delete(First()) would, and a Delete
\* step of the first item ends where PopFirst would.
C16_PopFirstIsDeleteFirst ==
    /\ [](pc = "ready" /\ length > 0 =>
            /\ FirstItem # NilItem
            /\ PopFirstOf(ListState) = DeleteOf(FirstItem)
            /\ PopFirstOf(ListState).val = FirstItem)
    /\ [][/\ (ret'.op = "PopFirst" /\ length > 0) =>
                ListStateAfter(ret'.val) = CanonState(DeleteOf(FirstItem))
          /\ (ret'.op = "Delete" /\ length > 0 /\ ret'.arg = FirstItem) =>
                ListStateAfter(ret'.val) = CanonState(PopFirstOf(ListState))]_vars

\* PopFirst took the first of two stored items equal by Less and of
\* different payloads, from a list of three levels; the other one stays.
C16_Witness ==
    /\ pc = "ready"
    /\ ret.op = "PopFirst"
    /\ ret.val # NilItem
    /\ maxLevel = 3
    /\ length = MaxNodes - 1
    /\ equal(FirstItem, ret.val)
    /\ FirstItem # ret.val

\* The sequence s with x put in as its k-th element.
InsertAt(s, k, x) ==
    [j \in 1..Len(s) + 1 |->
        IF j < k THEN s[j] ELSE IF j = k THEN x ELSE s[j - 1]]

\* How many elements of s are less than x, and how many are not greater.
CountLess(s, x) == Cardinality({ k \in DOMAIN s : Less(s[k], x) })
CountNotGreater(s, x) == Cardinality({ k \in DOMAIN s : ~Less(x, s[k]) })

\* C17 as stated: an item Put while equal items are stored is placed on the
\* level-0 chain behind them, so that equal items Put one after another are
\* in insertion order, the earliest first.
C17_InsertionOrder ==
    [][ret'.op = "Put" =>
          Level0Items' = InsertAt(Level0Items,
                                  CountNotGreater(Level0Items, ret'.arg) + 1,
                                  ret'.arg)]_vars

\* C17, amended: an item Put while equal items are stored is placed on the
\* level-0 chain behind every lesser item and in front of every equal item,
\* so that equal items Put one after another are in reverse insertion
\* order, the latest first.
C17_LatestFirst ==
    [][ret'.op = "Put" =>
          Level0Items' = InsertAt(Level0Items,
                                  CountLess(Level0Items, ret'.arg) + 1,
                                  ret'.arg)]_vars

\* The item Put last is on the level-0 chain right in front of an equal
\* item of another payload, Put before it.
C17_Witness ==
    /\ pc = "ready"
    /\ ret.op = "Put"
    /\ \E k \in DOMAIN Level0Items :
          /\ k + 1 \in DOMAIN Level0Items
          /\ Level0Items[k] = ret.arg
          /\ equal(Level0Items[k + 1], ret.arg)
          /\ Level0Items[k + 1] # ret.arg

\* The height of the node the last Put made: that node is on the level-0
\* chain behind the items less than its own, at the address of its place.
PutHeight == Len(forwards'[CountLess(Level0Items, ret'.arg) + 1])

\* C18 as stated: level generation stops as soon as the height reaches
\* maxLevel, so that one call of randLevel makes at most maxLevel - 1
\* successful trials.
C18_StopsAtMaxLevel ==
    (pc = "ready" /\ ret.op = "Put") => ret.num <= maxLevel - 1

\* C18, amended: level generation stops on the first failed trial only, after
\* any number t >= 0 of successful ones, and the height returned is then
\* 1 + t cut down to maxLevel: min(1 + t, maxLevel).
C18_ClampedAfterLoop ==
    [][ret'.op = "Put" =>
          /\ ret'.num >= 0
          /\ item'[CountLess(Level0Items, ret'.arg) + 1] = ret'.arg
          /\ PutHeight = IF 1 + ret'.num < maxLevel THEN 1 + ret'.num
                         ELSE maxLevel
          /\ ret'.num = 0 => PutHeight = 1
          /\ ret'.num >= maxLevel - 1 => PutHeight = maxLevel]_vars

\* A Put whose randLevel made maxLevel successful trials, one more than the
\* height can use, in a list of three levels.
C18_Witness ==
    /\ pc = "ready"
    /\ ret.op = "Put"
    /\ maxLevel = 3
    /\ ret.num = maxLevel
    /\ level = maxLevel

\* The update entries 0 .. n - 1 (Go indexes) are nodes, each with a link at
\* its level: update[i].forwards[i] is in range.
UpdateSafe(update, n) ==
    \A i \in 1..n :
        /\ i \in DOMAIN update
        /\ update[i] # Nil
        /\ i \in DOMAIN forwards[update[i]]

\* The stored items with the heights of their nodes, in the order of their
\* addresses, which is the order of the level-0 chain (InChainOrder).
HeightSeq == [k \in 1..length |-> <<item[k], Len(forwards[k])>>]
InChainOrder == LevelChain(forwards, 0) = [k \in 1..length |-> k]

\* How many of the stored items are less than x.
StoredLess(x) == Cardinality({ k \in 1..length : Less(item[k], x) })

\* C19: randLevel returns a height in 1..maxLevel; every node has between 1
\* and maxLevel forward links, head and the scratch buffer have exactly
\* maxLevel; a link at level i leads to a node that has a level-i link; in
\* every state, every index Put, Get, Delete, PopFirst, First and
\* NewIterator would use is in range and every update entry they would
\* dereference is a node.  A node keeps its number of links for its
\* lifetime: a Put adds one node of randLevel's height, a Delete or PopFirst
\* takes one node away, and the other nodes keep their heights.
C19_IndexSafety ==
    /\ [](pc = "ready" =>
            /\ Len(forwards[head]) = maxLevel
            /\ Len(resetBuf) = maxLevel
            /\ 0 <= level /\ level <= maxLevel
            /\ \A t \in 0..maxLevel :
                  1 <= randLevel(t) /\ randLevel(t) <= maxLevel
            /\ \A n \in Live(forwards) :
                  1 <= Len(forwards[n]) /\ Len(forwards[n]) <= maxLevel
            /\ \A n \in Live(forwards) \cup {head} :
                  \A i \in DOMAIN forwards[n] :
                      forwards[n][i] # Nil =>
                          /\ forwards[n][i] \in NodeIds
                          /\ i \in DOMAIN forwards[forwards[n][i]]
            /\ length # 0 => forwards[head][1] # Nil
            /\ InChainOrder
            /\ \A x \in Probes :
                  /\ Seek(x) # Nil
                  /\ 1 \in DOMAIN forwards[Seek(x)]
                  /\ UpdateSafe(Search(x).update, level)
                  /\ \A t \in 0..maxLevel :
                        UpdateSafe(RaiseUpdate(Search(x).update, randLevel(t)),
                                   randLevel(t)))
    /\ [][/\ ret'.op = "Put" =>
                \E h \in 1..maxLevel :
                    HeightSeq' = InsertAt(HeightSeq, StoredLess(ret'.arg) + 1,
                                          <<ret'.arg, h>>)
          /\ (ret'.op \in {"Delete", "PopFirst"} /\ ret'.val # NilItem) =>
                \E k \in 1..length :
                    /\ item[k] = ret'.val
                    /\ HeightSeq' = RemoveAt(HeightSeq, k)
          /\ (ret'.op \in {"Delete", "PopFirst"} /\ ret'.val = NilItem) =>
                HeightSeq' = HeightSeq]_vars

\* A Put into a list of three levels made a node of another height than
\* the node that was there, and raised the level to maxLevel.
C19_Witness ==
    /\ pc = "ready"
    /\ ret.op = "Put"
    /\ maxLevel = 3
    /\ level = maxLevel
    /\ length = MaxNodes
    /\ \E n, m \in Live(forwards) : Len(forwards[n]) < Len(forwards[m])

\* The stored items in the order of their addresses, which is the order of
\* the level-0 chain (InChainOrder).
StoredSeq == [k \in 1..length |-> item[k]]

\* What the calls do to the level-0 item sequence s, and what they return,
\* as functions of s and the arguments of the call alone: no height, no
\* upper link and no Level() is among their arguments.
FirstNotLess(s, x) ==
    IF \A k \in DOMAIN s : Less(s[k], x) THEN Len(s) + 1
    ELSE CHOOSE k \in DOMAIN s :
            ~Less(s[k], x) /\ \A j \in 1..k - 1 : Less(s[j], x)
AbsFound(s, x) ==
    FirstNotLess(s, x) <= Len(s) /\ equal(s[FirstNotLess(s, x)], x)
AbsGet(s, x) == IF AbsFound(s, x) THEN s[FirstNotLess(s, x)] ELSE NilItem
AbsPut(s, x) == InsertAt(s, FirstNotLess(s, x), x)
AbsDelete(s, x) ==
    IF AbsFound(s, x) THEN RemoveAt(s, FirstNotLess(s, x)) ELSE s
AbsFirst(s) == IF s = <<>> THEN NilItem ELSE s[1]
AbsPopFirst(s) == IF s = <<>> THEN s ELSE Tail(s)
AbsIteration(s, start) ==
    IF start = NilItem THEN s
    ELSE SubSeq(s, FirstNotLess(s, start), Len(s))

\* C20: height independence.  The level-0 item sequence after a call, Len()
\* and the result of every Get, Has, First, PopFirst, Delete and iteration
\* are functions of the level-0 item sequence before the call and of the
\* call, whatever the heights of the nodes, the upper links and Level()
\* are; so two lists driven by the same calls with different random heights
\* have, step by step, the same level-0 item sequence, the same Len() and
\* the same results.
C20_HeightIndependence ==
    /\ [](pc = "ready" =>
            /\ Level0Items = StoredSeq
            /\ length = Len(Level0Items)
            /\ iter.open =>
                  /\ Len(iter.out) <= Len(AbsIteration(StoredSeq, iter.start))
                  /\ iter.out = SubSeq(AbsIteration(StoredSeq, iter.start),
                                       1, Len(iter.out))
                  /\ iter.n = Nil =>
                        iter.out = AbsIteration(StoredSeq, iter.start))
    /\ [][(pc = "ready" /\ pc' = "ready") =>
            /\ ret'.op = "Put" => StoredSeq' = AbsPut(StoredSeq, ret'.arg)
            /\ ret'.op = "Delete" =>
                  /\ StoredSeq' = AbsDelete(StoredSeq, ret'.arg)
                  /\ ret'.val = AbsGet(StoredSeq, ret'.arg)
            /\ ret'.op = "PopFirst" =>
                  /\ StoredSeq' = AbsPopFirst(StoredSeq)
                  /\ ret'.val = AbsFirst(StoredSeq)
            /\ ret'.op = "Clear" => StoredSeq' = <<>>
            /\ ret'.op = "Get" => ret'.val = AbsGet(StoredSeq, ret'.arg)
            /\ ret'.op = "Has" => ret'.ok = AbsFound(StoredSeq, ret'.arg)
            /\ ret'.op = "First" => ret'.val = AbsFirst(StoredSeq)
            /\ ret'.op = "Len" => ret'.num = Len(StoredSeq)
            /\ ret'.op \in ReadOnlyOps => StoredSeq' = StoredSeq]_vars

\* A full iteration from a start item over a full list of three levels
\* whose nodes have different heights, after an item less than the start.
C20_Witness ==
    /\ Exhausted
    /\ iter.start # NilItem
    /\ level = 3
    /\ length = MaxNodes
    /\ Len(forwards[1]) # Len(forwards[MaxNodes])
    /\ Len(iter.out) = MaxNodes - 1
====
